---- MODULE Spec2Model ----
(***************************************************************************)
(* Model of the App component (src/unnamed/part_000) and of AppStep        *)
(* (src/types.ts): the step machine, the card open/close choreography, the *)
(* answer checks and the countdown gate.                                   *)
(*                                                                         *)
(* React semantics used by the model:                                      *)
(*  - every handler, timer callback and promise continuation runs to       *)
(*    completion and is followed by a render, so a user event always sees  *)
(*    the current state;                                                   *)
(*  - a callback created inside a handler keeps the values of the render   *)
(*    in which the handler was created (its closure): timers and in-flight *)
(*    digest comparisons carry those values with them;                     *)
(*  - state setters act on the current state.                              *)
(* Time is counted in units of 100 ms.  A timer fires no earlier than its  *)
(* delay and time does not pass while a timer is due.  The completion of a *)
(* digest (crypto.subtle.digest) has no deadline.                          *)
(***************************************************************************)
EXTENDS Integers, Sequences, FiniteSets, TLC

\* ---------------------------------------------------------------- bounds
\* Pending timers plus in-flight digest comparisons the user may pile up.
MaxPending == 2
\* Largest initial distance to the countdown target, in units of 100 ms.
MaxRemaining == 10
\* Largest number of configured cards the carousel is checked with.
MaxCards == 8
\* Longest answer typed when the normalisation is checked on every string.
MaxLen == 3

\* ------------------------------------------------------------- constants
\* Delays of the source, in units of 100 ms.
ERROR_PULSE == 5
NAME_FADE == 10
EXPAND_DELAY == 6
UNLOCK_DELAY == 6
FLIP_BACK_DELAY == 6
COLLAPSE_DELAY == 6
FINALE_PAUSE == 8
LIGHT_1_DELAY == 25
LIGHT_2_DELAY == 12
LIGHT_4_DELAY == 12
COUNTDOWN_PERIOD == 10

\* null of number | null (card ids are not negative) and of a cleared interval.
Null == -1

\* The blank of a closure that holds no step.
NoStep == "none"

\* AppStep.  types.ts declares no LIGHT_4 member: at run time AppStep.LIGHT_4
\* is one more value (undefined), distinct from every declared member, and the
\* component uses it consistently; CARD_BACK is declared and never used.
AppStep ==
  {"HOME", "START", "NAME", "CAROUSEL", "CARD_BACK",
   "LIGHT_1", "LIGHT_2", "LIGHT_3", "LIGHT_4", "END"}

\* ---------------------------------------------------------------- strings
\* A string is a sequence of characters.
Lower(c) == CASE c = "A" -> "a" [] c = "B" -> "b" [] c = "L" -> "l" [] OTHER -> c

RECURSIVE TrimLeft(_)
TrimLeft(s) ==
  IF s # <<>> /\ Head(s) = " " THEN TrimLeft(Tail(s)) ELSE s

RECURSIVE TrimRight(_)
TrimRight(s) ==
  IF s # <<>> /\ s[Len(s)] = " " THEN TrimRight(SubSeq(s, 1, Len(s) - 1)) ELSE s

\* Mutant of trim: only the leading whitespace is removed (trimStart).
trimStart(s) == TrimLeft(s)

\* String.prototype.trim
trim(s) == TrimRight(TrimLeft(s))

\* String.prototype.toLowerCase
toLowerCase(s) == [i \in 1..Len(s) |-> Lower(s[i])]

\* cleanInput of the submit handlers: input.trim().toLowerCase()
cleanInput(input) == toLowerCase(trim(input))

\* hashString: SHA-256 in hexadecimal, modelled as an injective tagging of
\* the text (no collisions).
hashString(text) == <<"sha256">> \o text

\* Static configuration (./constants): cards 1..N with their digests, and the
\* digest of the final answer.
CARDS_CONFIG ==
  << [id |-> 1, answer |-> hashString(<<"a">>)],
     [id |-> 2, answer |-> hashString(<<"b">>)] >>

FINAL_ANSWER == hashString(<<"a", "b">>)

\* A configuration of n cards, ids 1..n (the carousel reads only its length).
ConfigOf(n) == [i \in 1..n |-> [id |-> i, answer |-> hashString(<<"a">>)]]

\* CAROUSEL_LAYOUT.visibleCount
visibleCount == 4

\* What the user may type.
NameInputs == { <<" ">>, <<" ", "A", "l", " ">>, <<"B">> }
CardInputs == { <<"a">>, <<" ", "A", " ">>, <<"b">> }
FinalInputs == { <<"a", "b">>, <<"A", "B", " ">>, <<"b">> }

\* Every string of at most MaxLen characters over a small alphabet.
Chars == {" ", "a", "A", "b"}
Typed == UNION {[1..k -> Chars] : k \in 0..MaxLen}

\* ------------------------------------------------------------------ state
VARIABLES
  step,             \* useState<AppStep>
  user,             \* useState<UserState>
  isTransitioning,
  carouselIndex,
  activeCardId,
  isExpanded,
  isFlipped,
  isAnimating,
  inputName,
  inputCardAnswer,
  inputFinalAnswer,
  shakeError,
  isGameLive,
  remaining,        \* TARGET_DATE - now, down to -1 (the target is past)
  interval,         \* ticks to the next countdown tick, or Null
  timers,           \* pending setTimeout / requestAnimationFrame callbacks
  hashes,           \* digest comparisons in flight (suspended submit handlers)
  cards             \* the imported CARDS_CONFIG, fixed for a run

vars ==
  << step, user, isTransitioning, carouselIndex, activeCardId, isExpanded,
     isFlipped, isAnimating, inputName, inputCardAnswer, inputFinalAnswer,
     shakeError, isGameLive, remaining, interval, timers, hashes, cards >>

cardVars == << activeCardId, isExpanded, isFlipped, isAnimating >>
inputVars == << inputName, inputCardAnswer, inputFinalAnswer >>
countdownVars == << isGameLive, remaining, interval >>

CardIds == {cards[i].id : i \in 1..Len(cards)}

\* CARDS_CONFIG.find(c => c.id === id)
CardFound(id) == id \in CardIds

FindCard(id) == cards[CHOOSE i \in 1..Len(cards) : cards[i].id = id]

\* A pending callback: its kind, the ticks left, and the values its closure
\* holds (unused ones are blank).
Timer(kind, rem, to, solved, acid, sc, name) ==
  [kind |-> kind, rem |-> rem, to |-> to, solved |-> solved, acid |-> acid, sc |-> sc,
   name |-> name]

PlainTimer(kind, rem) == Timer(kind, rem, NoStep, FALSE, Null, <<>>, <<>>)

RemoveAt(s, i) == SubSeq(s, 1, i - 1) \o SubSeq(s, i + 1, Len(s))

Pending == Len(timers) + Len(hashes)

\* The countdown's initial evaluation: TEST_MODE, or the target already reached.
InitialGameLive(testMode, diff) == testMode \/ diff <= 0

\* The state after the first render, whatever the configuration.
Mount ==
  /\ step = "HOME"
  /\ user = [name |-> <<>>, solvedCards |-> <<>>, finalSolved |-> FALSE]
  /\ isTransitioning = FALSE
  /\ carouselIndex = 0
  /\ activeCardId = Null
  /\ isExpanded = FALSE
  /\ isFlipped = FALSE
  /\ isAnimating = FALSE
  /\ inputName = <<>>
  /\ inputCardAnswer = <<>>
  /\ inputFinalAnswer = <<>>
  /\ shakeError = FALSE
  /\ remaining \in -1..MaxRemaining
  /\ \E TEST_MODE \in BOOLEAN : isGameLive = InitialGameLive(TEST_MODE, remaining)
  /\ interval = IF isGameLive THEN Null ELSE COUNTDOWN_PERIOD
  /\ timers = <<>>
  /\ hashes = <<>>

Init ==
  /\ Mount
  /\ cards = CARDS_CONFIG

\* ------------------------------------------------------- render conditions
\* showCarouselUI: the cards, the arrows and the card overlay are rendered.
showCarouselUI == step \in {"NAME", "CAROUSEL"}

isGameLayerInteractive == step # "NAME"

\* visibleCards: CARDS_CONFIG.slice(carouselIndex, carouselIndex + visibleCount)
visibleCards ==
  {cards[i].id : i \in (carouselIndex + 1)..(carouselIndex + visibleCount)
                            \cap 1..Len(cards)}

\* user.solvedCards.includes(id)
Includes(seq, x) == \E i \in 1..Len(seq) : seq[i] = x

\* The card overlay (answer input, confirm and back buttons).
overlayRendered == showCarouselUI /\ activeCardId # Null

\* JavaScript truthiness of activeCardId (number | null).
Truthy(id) == id # Null /\ id # 0

\* ------------------------------------------------------------ step effect
\* The "Light" effect: it runs after a render in which step has changed.
LightEffect(s) ==
  IF s = "LIGHT_1" THEN << Timer("light", LIGHT_1_DELAY, "LIGHT_2", FALSE, Null, <<>>, <<>>) >>
  ELSE IF s = "LIGHT_2" THEN << Timer("light", LIGHT_2_DELAY, "LIGHT_3", FALSE, Null, <<>>, <<>>) >>
  ELSE IF s = "LIGHT_4" THEN << Timer("light", LIGHT_4_DELAY, "END", FALSE, Null, <<>>, <<>>) >>
  ELSE <<>>

\* setStep(to) followed by the render and its effects; base: the timers left
\* pending by the caller.
setStep(to, base) ==
  /\ step' = to
  /\ timers' = IF to # step THEN base \o LightEffect(to) ELSE base

\* ------------------------------------------------------------------ HOME
\* Mutant of HomeClick: the start button is rendered whatever isGameLive is.
HomeClickUngated ==
  /\ step = "HOME"
  /\ setStep("START", timers)
  /\ UNCHANGED << cards, user, isTransitioning, carouselIndex, cardVars, inputVars,
                  shakeError, countdownVars, hashes >>

\* The start button of HOME, rendered only when isGameLive.
HomeClick ==
  /\ step = "HOME"
  /\ isGameLive
  /\ setStep("START", timers)
  /\ UNCHANGED << cards, user, isTransitioning, carouselIndex, cardVars, inputVars,
                  shakeError, countdownVars, hashes >>

\* The countdown tick compares with <, the initial evaluation with <=.
TickUnlocks(diff) == diff < 0

\* The setInterval callback of the countdown effect.
CountdownTick ==
  /\ interval = 0
  /\ IF TickUnlocks(remaining)
       THEN isGameLive' = TRUE /\ interval' = Null
       ELSE isGameLive' = isGameLive /\ interval' = COUNTDOWN_PERIOD
  /\ UNCHANGED << cards, step, user, isTransitioning, carouselIndex, cardVars, inputVars,
                  shakeError, remaining, timers, hashes >>

\* ----------------------------------------------------------------- START
StartClick ==
  /\ step = "START"
  /\ setStep("NAME", timers)
  /\ UNCHANGED << cards, user, isTransitioning, carouselIndex, cardVars, inputVars,
                  shakeError, countdownVars, hashes >>

\* ------------------------------------------------------------------ NAME
NameChange(v) ==
  /\ step = "NAME"
  /\ v # inputName
  /\ inputName' = v
  /\ UNCHANGED << cards, step, user, isTransitioning, carouselIndex, cardVars,
                  inputCardAnswer, inputFinalAnswer, shakeError, countdownVars,
                  timers, hashes >>

\* Mutant of NameRejected: the check forgets to trim.
NameRejectedUntrimmed(name) == name = <<>>

\* !inputName.trim()
NameRejected(name) == trim(name) = <<>>

\* The submit button of NAME.  The timer's closure holds the render's inputName.
handleNameSubmit ==
  /\ step = "NAME"
  /\ NameRejected(inputName) \/ Pending < MaxPending
  /\ IF NameRejected(inputName)
       THEN UNCHANGED << user, isTransitioning, timers >>
       ELSE /\ user' = [user EXCEPT !.name = trim(inputName)]
            /\ isTransitioning' = TRUE
            /\ timers' = Append(timers,
                 Timer("nameFade", NAME_FADE, NoStep, FALSE, Null, <<>>, inputName))
  /\ UNCHANGED << cards, step, carouselIndex, cardVars, inputVars, shakeError,
                  countdownVars, hashes >>

\* The callback of handleNameSubmit's timer.
NameFadeFire(i) ==
  /\ timers[i].kind = "nameFade"
  /\ timers[i].rem = 0
  /\ setStep("CAROUSEL", RemoveAt(timers, i))
  /\ isTransitioning' = FALSE
  /\ UNCHANGED << cards, user, carouselIndex, cardVars, inputVars, shakeError,
                  countdownVars, hashes >>

\* -------------------------------------------------------------- carousel
handlePrev ==
  /\ showCarouselUI
  /\ carouselIndex > 0
  /\ carouselIndex' = carouselIndex - 3
  /\ UNCHANGED << cards, step, user, isTransitioning, cardVars, inputVars, shakeError,
                  countdownVars, timers, hashes >>

\* Mutant of handleNext: the guard forgets the width of the window.
handleNextAnyStart ==
  /\ showCarouselUI
  /\ carouselIndex < Len(cards)
  /\ carouselIndex' = carouselIndex + 3
  /\ UNCHANGED << cards, step, user, isTransitioning, cardVars, inputVars, shakeError,
                  countdownVars, timers, hashes >>

handleNext ==
  /\ showCarouselUI
  /\ carouselIndex + visibleCount < Len(cards)
  /\ carouselIndex' = carouselIndex + 3
  /\ UNCHANGED << cards, step, user, isTransitioning, cardVars, inputVars, shakeError,
                  countdownVars, timers, hashes >>

\* ----------------------------------------------------------------- cards
\* openCard(id), called from a render whose isAnimating is the current one.
openCard(id) ==
  IF isAnimating
    THEN UNCHANGED << activeCardId, isAnimating, inputCardAnswer, timers >>
    ELSE /\ isAnimating' = TRUE
         /\ activeCardId' = id
         /\ inputCardAnswer' = <<>>
         /\ timers' = Append(timers, PlainTimer("raf", 0))

\* Mutant of CardClickGuard: the guard forgets the solved check.
CardClickGuardNoSolved(id) ==
  /\ isGameLayerInteractive
  /\ activeCardId # id

\* The onClick guard of a card of the carousel.
CardClickGuard(id) ==
  /\ isGameLayerInteractive
  /\ activeCardId # id
  /\ ~Includes(user.solvedCards, id)

\* A click on a visible card.
CardClick(id) ==
  /\ showCarouselUI
  /\ id \in visibleCards
  /\ isAnimating \/ ~CardClickGuard(id) \/ Pending < MaxPending
  /\ IF CardClickGuard(id)
       THEN openCard(id)
       ELSE UNCHANGED << activeCardId, isAnimating, inputCardAnswer, timers >>
  /\ UNCHANGED << cards, step, user, isTransitioning, carouselIndex, isExpanded, isFlipped,
                  inputName, inputFinalAnswer, shakeError, countdownVars, hashes >>

\* requestAnimationFrame callback of openCard.
RafFire(i) ==
  /\ timers[i].kind = "raf"
  /\ timers[i].rem = 0
  /\ isExpanded' = TRUE
  /\ timers' = Append(RemoveAt(timers, i), PlainTimer("flip", EXPAND_DELAY))
  /\ UNCHANGED << cards, step, user, isTransitioning, carouselIndex, activeCardId, isFlipped,
                  isAnimating, inputVars, shakeError, countdownVars, hashes >>

FlipFire(i) ==
  /\ timers[i].kind = "flip"
  /\ timers[i].rem = 0
  /\ isFlipped' = TRUE
  /\ timers' = Append(RemoveAt(timers, i), PlainTimer("unlock", UNLOCK_DELAY))
  /\ UNCHANGED << cards, step, user, isTransitioning, carouselIndex, activeCardId, isExpanded,
                  isAnimating, inputVars, shakeError, countdownVars, hashes >>

UnlockFire(i) ==
  /\ timers[i].kind = "unlock"
  /\ timers[i].rem = 0
  /\ isAnimating' = FALSE
  /\ timers' = RemoveAt(timers, i)
  /\ UNCHANGED << cards, step, user, isTransitioning, carouselIndex, activeCardId, isExpanded,
                  isFlipped, inputVars, shakeError, countdownVars, hashes >>

\* Mutant of closeCard: the lock is read from the current state, not from the
\* render of the caller.
closeCardCurrentLock(solved, cAnim, cAcid, cSc, base) ==
  IF isAnimating
    THEN /\ timers' = base
         /\ UNCHANGED << isAnimating, isFlipped >>
    ELSE /\ isAnimating' = TRUE
         /\ isFlipped' = FALSE
         /\ timers' = Append(base, Timer("collapse", FLIP_BACK_DELAY, NoStep, solved, cAcid, cSc, <<>>))

\* closeCard(solved) of a render whose isAnimating, activeCardId and
\* user.solvedCards were cAnim, cAcid and cSc; base: the timers left pending.
closeCard(solved, cAnim, cAcid, cSc, base) ==
  IF cAnim
    THEN /\ timers' = base
         /\ UNCHANGED << isAnimating, isFlipped >>
    ELSE /\ isAnimating' = TRUE
         /\ isFlipped' = FALSE
         /\ timers' = Append(base, Timer("collapse", FLIP_BACK_DELAY, NoStep, solved, cAcid, cSc, <<>>))

\* The back button of the overlay: closeCard(false).
BackClick ==
  /\ overlayRendered
  /\ isAnimating \/ Pending < MaxPending
  /\ closeCard(FALSE, isAnimating, activeCardId, user.solvedCards, timers)
  /\ UNCHANGED << cards, step, user, isTransitioning, carouselIndex, activeCardId, isExpanded,
                  inputVars, shakeError, countdownVars, hashes >>

\* First timer of closeCard.
CollapseFire(i) ==
  /\ timers[i].kind = "collapse"
  /\ timers[i].rem = 0
  /\ isExpanded' = FALSE
  /\ timers' = Append(RemoveAt(timers, i),
                      [timers[i] EXCEPT !.kind = "commit", !.rem = COLLAPSE_DELAY])
  /\ UNCHANGED << cards, step, user, isTransitioning, carouselIndex, activeCardId, isFlipped,
                  isAnimating, inputVars, shakeError, countdownVars, hashes >>

\* [...user.solvedCards, activeCardId] of the closure.
NewSolved(cSc, cAcid) == Append(cSc, cAcid)

\* Second timer of closeCard: the close commit.
CommitFire(i) ==
  /\ timers[i].kind = "commit"
  /\ timers[i].rem = 0
  /\ activeCardId' = Null
  /\ isAnimating' = FALSE
  /\ LET t == timers[i]
         newSolved == NewSolved(t.sc, t.acid)
     IN IF t.solved /\ Truthy(t.acid)
          THEN /\ user' = [user EXCEPT !.solvedCards = newSolved]
               /\ timers' = IF Len(newSolved) = Len(cards)
                              THEN Append(RemoveAt(timers, i), PlainTimer("finale", FINALE_PAUSE))
                              ELSE RemoveAt(timers, i)
          ELSE /\ user' = user
               /\ timers' = RemoveAt(timers, i)
  /\ UNCHANGED << cards, step, isTransitioning, carouselIndex, isExpanded, isFlipped,
                  inputVars, shakeError, countdownVars, hashes >>

\* The timer armed by the close commit once every card is solved.
FinaleFire(i) ==
  /\ timers[i].kind = "finale"
  /\ timers[i].rem = 0
  /\ setStep("LIGHT_1", RemoveAt(timers, i))
  /\ UNCHANGED << cards, user, isTransitioning, carouselIndex, cardVars, inputVars,
                  shakeError, countdownVars, hashes >>

\* ---------------------------------------------------------------- answers
CardAnswerChange(v) ==
  /\ overlayRendered
  /\ v # inputCardAnswer
  /\ inputCardAnswer' = v
  /\ UNCHANGED << cards, step, user, isTransitioning, carouselIndex, cardVars, inputName,
                  inputFinalAnswer, shakeError, countdownVars, timers, hashes >>

\* A suspended submit handler: the text it hashes and the values of its render.
Comparison(kind, text, acid, anim, sc, flip) ==
  [kind |-> kind, text |-> text, acid |-> acid, anim |-> anim, sc |-> sc, flip |-> flip]

\* submitCardAnswer up to its await.
submitCardAnswer ==
  /\ overlayRendered
  /\ CardFound(activeCardId)
  /\ Pending < MaxPending
  /\ hashes' = Append(hashes,
       Comparison("card", cleanInput(inputCardAnswer), activeCardId,
                  isAnimating, user.solvedCards, isFlipped))
  /\ UNCHANGED << cards, step, user, isTransitioning, carouselIndex, cardVars, inputVars,
                  shakeError, countdownVars, timers >>

\* hashedInput === digest
Matches(text, digest) == hashString(text) = digest

\* handleError
handleError(base) ==
  /\ shakeError' = TRUE
  /\ timers' = Append(base, PlainTimer("shake", ERROR_PULSE))

\* The timer of handleError.
ShakeFire(i) ==
  /\ timers[i].kind = "shake"
  /\ timers[i].rem = 0
  /\ shakeError' = FALSE
  /\ timers' = RemoveAt(timers, i)
  /\ UNCHANGED << cards, step, user, isTransitioning, carouselIndex, cardVars, inputVars,
                  countdownVars, hashes >>

\* submitCardAnswer after its await, digest accepted.
CardAccept(i) ==
  /\ hashes[i].kind = "card"
  /\ Matches(hashes[i].text, FindCard(hashes[i].acid).answer)
  /\ hashes' = RemoveAt(hashes, i)
  /\ closeCard(TRUE, hashes[i].anim, hashes[i].acid, hashes[i].sc, timers)
  /\ UNCHANGED << cards, step, user, isTransitioning, carouselIndex, activeCardId, isExpanded,
                  inputVars, shakeError, countdownVars >>

\* Mutant of CardReject: a rejected answer also closes the card.
CardRejectCloses(i) ==
  /\ hashes[i].kind = "card"
  /\ ~Matches(hashes[i].text, FindCard(hashes[i].acid).answer)
  /\ hashes' = RemoveAt(hashes, i)
  /\ shakeError' = TRUE
  /\ closeCard(FALSE, hashes[i].anim, hashes[i].acid, hashes[i].sc,
               Append(timers, PlainTimer("shake", ERROR_PULSE)))
  /\ UNCHANGED << cards, step, user, isTransitioning, carouselIndex, activeCardId, isExpanded,
                  inputVars, countdownVars >>

\* submitCardAnswer after its await, digest rejected.
CardReject(i) ==
  /\ hashes[i].kind = "card"
  /\ ~Matches(hashes[i].text, FindCard(hashes[i].acid).answer)
  /\ hashes' = RemoveAt(hashes, i)
  /\ handleError(timers)
  /\ UNCHANGED << cards, step, user, isTransitioning, carouselIndex, cardVars, inputVars,
                  countdownVars >>

FinalAnswerChange(v) ==
  /\ step = "LIGHT_3"
  /\ v # inputFinalAnswer
  /\ inputFinalAnswer' = v
  /\ UNCHANGED << cards, step, user, isTransitioning, carouselIndex, cardVars, inputName,
                  inputCardAnswer, shakeError, countdownVars, timers, hashes >>

\* submitFinalAnswer up to its await.
submitFinalAnswer ==
  /\ step = "LIGHT_3"
  /\ Pending < MaxPending
  /\ hashes' = Append(hashes,
       Comparison("final", cleanInput(inputFinalAnswer), Null, FALSE, <<>>, FALSE))
  /\ UNCHANGED << cards, step, user, isTransitioning, carouselIndex, cardVars, inputVars,
                  shakeError, countdownVars, timers >>

\* submitFinalAnswer after its await, digest accepted.
FinalAccept(i) ==
  /\ hashes[i].kind = "final"
  /\ Matches(hashes[i].text, FINAL_ANSWER)
  /\ hashes' = RemoveAt(hashes, i)
  /\ setStep("LIGHT_4", timers)
  /\ UNCHANGED << cards, user, isTransitioning, carouselIndex, cardVars, inputVars,
                  shakeError, countdownVars >>

\* submitFinalAnswer after its await, digest rejected.
FinalReject(i) ==
  /\ hashes[i].kind = "final"
  /\ ~Matches(hashes[i].text, FINAL_ANSWER)
  /\ hashes' = RemoveAt(hashes, i)
  /\ handleError(timers)
  /\ UNCHANGED << cards, step, user, isTransitioning, carouselIndex, cardVars, inputVars,
                  countdownVars >>

\* ----------------------------------------------------------------- lights
\* A timer of the Light effect.
LightFire(i) ==
  /\ timers[i].kind = "light"
  /\ timers[i].rem = 0
  /\ setStep(timers[i].to, RemoveAt(timers, i))
  /\ UNCHANGED << cards, user, isTransitioning, carouselIndex, cardVars, inputVars,
                  shakeError, countdownVars, hashes >>

\* ------------------------------------------------------------------- time
\* 100 ms pass: no timer is due.
Tick ==
  /\ \A i \in 1..Len(timers) : timers[i].rem > 0
  /\ interval # 0
  /\ timers # <<>> \/ interval # Null \/ remaining > -1
  /\ timers' = [i \in 1..Len(timers) |-> [timers[i] EXCEPT !.rem = @ - 1]]
  /\ interval' = IF interval = Null THEN Null ELSE interval - 1
  /\ remaining' = IF remaining > -1 THEN remaining - 1 ELSE remaining
  /\ UNCHANGED << cards, step, user, isTransitioning, carouselIndex, cardVars, inputVars,
                  shakeError, isGameLive, hashes >>

Next ==
  \/ HomeClick
  \/ CountdownTick
  \/ StartClick
  \/ \E v \in NameInputs : NameChange(v)
  \/ handleNameSubmit
  \/ \E id \in CardIds : CardClick(id)
  \/ BackClick
  \/ \E v \in CardInputs : CardAnswerChange(v)
  \/ submitCardAnswer
  \/ \E v \in FinalInputs : FinalAnswerChange(v)
  \/ submitFinalAnswer
  \/ \E i \in 1..Len(hashes) : CardAccept(i)
  \/ \E i \in 1..Len(hashes) : CardReject(i)
  \/ \E i \in 1..Len(hashes) : FinalAccept(i)
  \/ \E i \in 1..Len(hashes) : FinalReject(i)
  \/ \E i \in 1..Len(timers) : NameFadeFire(i)
  \/ \E i \in 1..Len(timers) : RafFire(i)
  \/ \E i \in 1..Len(timers) : FlipFire(i)
  \/ \E i \in 1..Len(timers) : UnlockFire(i)
  \/ \E i \in 1..Len(timers) : CollapseFire(i)
  \/ \E i \in 1..Len(timers) : CommitFire(i)
  \/ \E i \in 1..Len(timers) : FinaleFire(i)
  \/ \E i \in 1..Len(timers) : ShakeFire(i)
  \/ \E i \in 1..Len(timers) : LightFire(i)
  \/ Tick

Spec == Init /\ [][Next]_vars

\* The carousel under every configuration size: the way to the carousel and
\* its two arrows.
InitNav ==
  /\ Mount
  /\ cards \in {ConfigOf(n) : n \in 0..MaxCards}

NextNav ==
  \/ HomeClick
  \/ CountdownTick
  \/ StartClick
  \/ \E v \in NameInputs : NameChange(v)
  \/ handleNameSubmit
  \/ \E i \in 1..Len(timers) : NameFadeFire(i)
  \/ handlePrev
  \/ handleNext
  \/ Tick

SpecNav == InitNav /\ [][NextNav]_vars

\* The answer checks on every typed string: a card is flipped and idle with
\* any text in its answer input, or the step is LIGHT_3 with any text in the
\* final-answer input; the answers are submitted and compared.
InitMatch ==
  /\ cards = CARDS_CONFIG
  /\ isTransitioning = FALSE
  /\ carouselIndex = 0
  /\ inputName = <<"B">>
  /\ shakeError = FALSE
  /\ isGameLive = TRUE
  /\ remaining = -1
  /\ interval = Null
  /\ timers = <<>>
  /\ hashes = <<>>
  /\ \/ /\ step = "CAROUSEL"
        /\ user = [name |-> <<"B">>, solvedCards |-> <<>>, finalSolved |-> FALSE]
        /\ activeCardId \in CardIds
        /\ isExpanded = TRUE
        /\ isFlipped = TRUE
        /\ isAnimating = FALSE
        /\ inputCardAnswer \in Typed
        /\ inputFinalAnswer = <<>>
     \/ /\ step = "LIGHT_3"
        /\ user = [name |-> <<"B">>, solvedCards |-> <<1, 2>>, finalSolved |-> FALSE]
        /\ activeCardId = Null
        /\ isExpanded = FALSE
        /\ isFlipped = FALSE
        /\ isAnimating = FALSE
        /\ inputCardAnswer = <<"b">>
        /\ inputFinalAnswer \in Typed

NextMatch ==
  \/ submitCardAnswer
  \/ submitFinalAnswer
  \/ \E i \in 1..Len(hashes) : CardAccept(i)
  \/ \E i \in 1..Len(hashes) : CardReject(i)
  \/ \E i \in 1..Len(hashes) : FinalAccept(i)
  \/ \E i \in 1..Len(hashes) : FinalReject(i)

SpecMatch == InitMatch /\ [][NextMatch]_vars

\* ================================================================= claims

\* §4.5: the edge set of the step machine.
PermittedEdges ==
  { <<"HOME", "START">>, <<"START", "NAME">>, <<"NAME", "CAROUSEL">>,
    <<"CAROUSEL", "LIGHT_1">>, <<"LIGHT_1", "LIGHT_2">>, <<"LIGHT_2", "LIGHT_3">>,
    <<"LIGHT_3", "LIGHT_4">>, <<"LIGHT_4", "END">> }

\* The pending timers of close sequences started with solved = true.
SolvedCloseTimers ==
  {i \in 1..Len(timers) : timers[i].kind \in {"collapse", "commit"} /\ timers[i].solved}

FinaleTimers == {i \in 1..Len(timers) : timers[i].kind = "finale"}

AllSolved == \A id \in CardIds : Includes(user.solvedCards, id)

\* C1: every change of the active step follows a permitted edge: no step is
\* skipped and no back-edge is taken.
C1_EdgesOnly == [][step' # step => <<step, step'>> \in PermittedEdges]_vars

\* C2: END is terminal: once the step is END it stays END.
C2_EndTerminal == [][step = "END" => step' = "END"]_vars

\* C3: a rejected card or final answer only activates the error pulse: step,
\* profile, active card, phase flags, lock, carousel and inputs are unchanged,
\* a flipped card stays flipped and the submit control stays rendered.
C3_RejectOnlyPulses ==
  [][(\E i \in 1..Len(hashes) : CardReject(i) \/ FinalReject(i))
       => /\ shakeError'
          /\ UNCHANGED << step, user, isTransitioning, carouselIndex, cardVars,
                          inputVars, countdownVars >>
          /\ isFlipped => isFlipped'
          /\ overlayRendered => overlayRendered'
          /\ step = "LIGHT_3" => step' = "LIGHT_3"]_vars

\* C3 witness: the pulse of a rejected card answer has just been armed, the
\* card is flipped and idle.
C3_Witness ==
  /\ step = "CAROUSEL"
  /\ shakeError
  /\ activeCardId # Null /\ isFlipped /\ isExpanded /\ ~isAnimating
  /\ \E i \in 1..Len(timers) : timers[i].kind = "shake" /\ timers[i].rem = ERROR_PULSE

\* C4: an open or close call made while the lock is held changes nothing.
C4_LockedCallsDropped ==
  [][(isAnimating /\ (\/ \E id \in CardIds : CardClick(id)
                      \/ BackClick
                      \/ \E i \in 1..Len(hashes) : CardAccept(i)))
       => UNCHANGED << step, user, isTransitioning, carouselIndex, cardVars,
                       inputVars, shakeError, countdownVars, timers >>]_vars

\* C5: at most one close sequence with solved = true runs at a time and at
\* most one transition to LIGHT_1 is scheduled.
C5_SingleCloseSequence ==
  /\ Cardinality(SolvedCloseTimers) <= 1
  /\ Cardinality(FinaleTimers) <= 1

\* C6: a click that opens a card while a card is active changes neither the
\* active card nor its phase.
C6_OpenNoOpWhenActive ==
  [][(activeCardId # Null /\ \E id \in CardIds : CardClick(id))
       => UNCHANGED cardVars]_vars

\* C7: opening a card whose id is in solvedCards changes neither the active
\* card, the phase flags, the lock, the profile nor the pending timers.
C7_OpenSolvedNoOp ==
  [][\A id \in CardIds :
       (Includes(user.solvedCards, id) /\ CardClick(id))
         => UNCHANGED << cardVars, user, inputCardAnswer, timers >>]_vars

\* C7 witness: a solved card is shown in the carousel, no card is active and
\* the lock is clear, so only the solved check stands between click and open.
C7_Witness ==
  /\ step = "CAROUSEL"
  /\ activeCardId = Null /\ ~isAnimating
  /\ \E id \in visibleCards : Includes(user.solvedCards, id)

\* C8: a close commit with solved = true leaves the card's id in solvedCards,
\* leaves the count unchanged when the id was already there, and solvedCards
\* never holds an id twice.
C8_CloseAddsOnce ==
  [][\A i \in 1..Len(timers) :
       (CommitFire(i) /\ timers[i].solved)
         => /\ Includes(user'.solvedCards, timers[i].acid)
            /\ Includes(user.solvedCards, timers[i].acid)
                 => Len(user'.solvedCards) = Len(user.solvedCards)
            /\ \A j, k \in 1..Len(user'.solvedCards) :
                 user'.solvedCards[j] = user'.solvedCards[k] => j = k]_vars

\* C9: the close commit of an already-solved card neither changes the solved
\* count nor schedules the transition to LIGHT_1 again.
C9_FinaleOnce ==
  [][\A i \in 1..Len(timers) :
       (CommitFire(i) /\ timers[i].solved /\ Includes(user.solvedCards, timers[i].acid))
         => /\ Len(user'.solvedCards) = Len(user.solvedCards)
            /\ Len(timers') < Len(timers)]_vars

\* C10: in every state whose step is LIGHT_1 or later, every card id is in
\* solvedCards.
C10_LightOnlyWhenAllSolved ==
  step \in {"LIGHT_1", "LIGHT_2", "LIGHT_3", "LIGHT_4", "END"} => AllSolved

\* The step whose handler or effect armed a step-changing timer.
ArmedBy(t) ==
  CASE t.kind = "nameFade" -> "NAME"
    [] t.kind = "finale" -> "CAROUSEL"
    [] t.kind = "light" /\ t.to = "LIGHT_2" -> "LIGHT_1"
    [] t.kind = "light" /\ t.to = "LIGHT_3" -> "LIGHT_2"
    [] t.kind = "light" /\ t.to = "END" -> "LIGHT_4"
    [] OTHER -> NoStep

\* C11: a timer armed by a step causes no step transition once that step is
\* gone: a step-changing timer that fires after its step was left changes
\* nothing.
C11_NoStaleTransition ==
  [][\A i \in 1..Len(timers) :
       ((NameFadeFire(i) \/ FinaleFire(i) \/ LightFire(i)) /\ step # ArmedBy(timers[i]))
         => step' = step]_vars

Max(a, b) == IF a >= b THEN a ELSE b

\* C12 as stated: for every number of cards and every sequence of prev and
\* next, carouselIndex stays within [0, max(0, total - visibleCount)], so the
\* window never runs past the last card.
C12_WindowStartBound ==
  /\ 0 <= carouselIndex
  /\ carouselIndex <= Max(0, Len(cards) - visibleCount)

\* C12 amended: for every number of cards and every sequence of prev and
\* next, carouselIndex stays within [0, max(0, total - 2)]: the window starts
\* at a card and may show fewer than visibleCount cards at the tail.
C12_WindowStartsAtCard ==
  /\ 0 <= carouselIndex
  /\ carouselIndex <= Max(0, Len(cards) - 2)

\* C12 witness: next has moved the window to a last page that shows fewer
\* than visibleCount cards.
C12_Witness ==
  /\ carouselIndex > 0
  /\ carouselIndex < Len(cards)
  /\ carouselIndex + visibleCount > Len(cards)

\* The close sequence of closeCard(true) for the comparison h has just started.
CloseStarted(h) ==
  /\ isAnimating'
  /\ ~isFlipped'
  /\ timers' = Append(timers, Timer("collapse", FLIP_BACK_DELAY, NoStep, TRUE, h.acid, h.sc, <<>>))

\* C13 as stated: a correct answer submitted at any moment at which the card
\* is flipped, the interval before the lock is released included, starts the
\* close sequence of close(true) when its comparison completes.
C13_CorrectAlwaysCloses ==
  [][\A i \in 1..Len(hashes) :
       (CardAccept(i) /\ hashes[i].flip) => CloseStarted(hashes[i])]_vars

\* C13 amended: a correct answer submitted while the card is flipped starts
\* the close sequence of close(true) when its comparison completes if the lock
\* was clear at the submission, and is dropped if the lock was held; the commit
\* of a close(true) sequence leaves no card active and the id in solvedCards.
C13_UnlockedCorrectCloses ==
  [][/\ \A i \in 1..Len(hashes) :
          (CardAccept(i) /\ hashes[i].flip)
            => IF hashes[i].anim
                 THEN UNCHANGED << cardVars, user, timers >>
                 ELSE CloseStarted(hashes[i])
     /\ \A i \in 1..Len(timers) :
          (CommitFire(i) /\ timers[i].solved)
            => /\ activeCardId' = Null
               /\ ~isAnimating'
               /\ Includes(user'.solvedCards, timers[i].acid)]_vars

\* C13 witness: the close(true) sequence of a correct answer, submitted while
\* the card was flipped and the lock clear, has committed: the card is closed
\* and solved.
C13_Witness ==
  /\ step = "CAROUSEL"
  /\ activeCardId = Null /\ ~isAnimating /\ ~isFlipped /\ ~isExpanded
  /\ user.solvedCards # <<>>
  /\ timers = <<>> /\ hashes = <<>>

\* C14: the step leaves LIGHT_3 only by the continuation of a final-answer
\* submission whose digest equals FINAL_ANSWER, and then for LIGHT_4; no timer
\* and no other event changes the step at LIGHT_3, a rejected final answer
\* included.
C14_Light3LeftByFinalAnswer ==
  [][(step = "LIGHT_3" /\ step' # step)
       => /\ step' = "LIGHT_4"
          /\ \E i \in 1..Len(hashes) :
               /\ FinalAccept(i)
               /\ hashes[i].text = <<"a", "b">>]_vars

\* The pending timers of the Light effect that will set the step to `to`.
LightTimers(to) == {i \in 1..Len(timers) : timers[i].kind = "light" /\ timers[i].to = to}

\* The step the Light effect advances to, without input, from s.
AutoNext(s) ==
  CASE s = "LIGHT_1" -> "LIGHT_2"
    [] s = "LIGHT_2" -> "LIGHT_3"
    [] s = "LIGHT_4" -> "END"
    [] OTHER -> NoStep

\* C15: the automatic steps advance without input, each transition once:
\* LIGHT_1, LIGHT_2 and LIGHT_4 are left only for LIGHT_2, LIGHT_3 and END, by
\* the one timer their entry armed (2500, 1200 and 1200 ms), and while the step
\* is one of them exactly that one timer is pending.
C15_AutomaticAdvance ==
  [][/\ (AutoNext(step) # NoStep /\ step' # step)
          => /\ step' = AutoNext(step)
             /\ \E i \in LightTimers(AutoNext(step)) : LightFire(i)
     /\ AutoNext(step') # NoStep
          => /\ \E i \in 1..Len(timers') : timers'[i].kind = "light"
             /\ \A i, j \in 1..Len(timers') :
                  (timers'[i].kind = "light" /\ timers'[j].kind = "light")
                    => (i = j /\ timers'[i].to = AutoNext(step'))]_vars

\* C16: a submitted non-empty name is committed trimmed before the fade
\* starts, and when the step becomes CAROUSEL, NAME_FADE after a submission,
\* user.name is the trimmed name of that submission, also when the submit
\* button is used again during the fade.
C16_NameOfSubmission ==
  [][/\ (handleNameSubmit /\ ~NameRejected(inputName))
          => /\ user'.name = trim(inputName)
             /\ isTransitioning'
             /\ step' = "NAME"
     /\ \A i \in 1..Len(timers) :
          (NameFadeFire(i) /\ step = "NAME")
            => /\ step' = "CAROUSEL"
               /\ user'.name = trim(timers[i].name)]_vars

\* A name that is empty or holds only spaces.
Blank(name) == \A i \in 1..Len(name) : name[i] = " "

\* C17: submitting an empty or whitespace-only name is ignored: the step stays
\* NAME, user is unchanged, no fade starts and no timer is armed.
C17_BlankNameIgnored ==
  [][(step = "NAME" /\ Blank(inputName) /\ handleNameSubmit)
       => /\ step' = "NAME"
          /\ user' = user
          /\ isTransitioning' = isTransitioning
          /\ timers' = timers
          /\ UNCHANGED << cardVars, inputVars, shakeError, carouselIndex, hashes >>]_vars

\* C17 witness: at NAME a whitespace-only name is in the input, nothing has
\* been submitted yet and the submit button can be clicked.
C17_Witness ==
  /\ step = "NAME"
  /\ inputName # <<>> /\ Blank(inputName)
  /\ ~isTransitioning
  /\ user.name = <<>>
  /\ timers = <<>>

\* C18: the step leaves HOME only for START, by a click on the start button
\* made while isGameLive holds; while it does not hold no event changes the
\* step from HOME.
C18_HomeLeftByUnlockedClick ==
  [][(step = "HOME" /\ step' # step)
       => /\ isGameLive
          /\ step' = "START"
          /\ HomeClick]_vars

\* C18 witness: the countdown has ticked without unlocking and the step is
\* still HOME.
C18_Witness ==
  /\ step = "HOME"
  /\ ~isGameLive
  /\ remaining = 0
  /\ interval = COUNTDOWN_PERIOD

\* Two characters that are the same letter in either case.
SameLetter(x, y) ==
  \/ x = y
  \/ <<x, y>> \in { <<"a", "A">>, <<"A", "a">>, <<"b", "B">>, <<"B", "b">> }

\* s1 and s2 differ only in leading or trailing whitespace or in letter case:
\* after l1, l2 leading and r1, r2 trailing spaces are dropped the rests are
\* the same letters.
SameUpToPaddingAndCase(s1, s2) ==
  \E l1 \in 0..Len(s1) :
    /\ \A k \in 1..l1 : s1[k] = " "
    /\ \E r1 \in 0..(Len(s1) - l1) :
         /\ \A k \in (Len(s1) - r1 + 1)..Len(s1) : s1[k] = " "
         /\ \E l2 \in 0..Len(s2) :
              /\ \A k \in 1..l2 : s2[k] = " "
              /\ LET n == Len(s1) - l1 - r1
                     r2 == Len(s2) - l2 - n
                 IN /\ r2 >= 0
                    /\ \A k \in (Len(s2) - r2 + 1)..Len(s2) : s2[k] = " "
                    /\ \A k \in 1..n : SameLetter(s1[l1 + k], s2[l2 + k])

\* The digests an answer typed as s1 or s2 can be compared with.
Digests(s1, s2) ==
  {cards[i].answer : i \in 1..Len(cards)} \cup {FINAL_ANSWER}
    \cup {hashString(cleanInput(s1)), hashString(cleanInput(s2))}

\* The check of the submit handlers on the typed text s.
AnswerCheck(s, d) == Matches(cleanInput(s), d)

\* C19: text in an answer input (card or final) and any string that differs
\* from it only in leading or trailing whitespace or letter case get the same
\* result from the answer check, whatever the digest.
C19_NormalisedCheck ==
  \A s1 \in {inputCardAnswer, inputFinalAnswer} : \A s2 \in Typed :
    SameUpToPaddingAndCase(s1, s2)
      => \A d \in Digests(s1, s2) : AnswerCheck(s1, d) = AnswerCheck(s2, d)

\* C19 witness: a card answer typed with padding or capitals has been
\* accepted: the close(true) sequence runs and the input is not its own
\* normal form.
C19_Witness ==
  /\ SolvedCloseTimers # {}
  /\ inputCardAnswer # cleanInput(inputCardAnswer)
  /\ Matches(cleanInput(inputCardAnswer), FindCard(activeCardId).answer)

\* The phase of the card choreography, read from the active card, the flip
\* flag and the pending close sequence.
Phase ==
  IF activeCardId = Null THEN "CLOSED"
  ELSE IF isFlipped THEN "FLIPPED"
  ELSE IF \E i \in 1..Len(timers) : timers[i].kind \in {"collapse", "commit"}
    THEN "COLLAPSING"
  ELSE "EXPANDING"

PhaseEdges ==
  { <<"CLOSED", "EXPANDING">>, <<"EXPANDING", "FLIPPED">>,
    <<"FLIPPED", "COLLAPSING">>, <<"COLLAPSING", "CLOSED">> }

\* C20: the card phase changes only along CLOSED, EXPANDING, FLIPPED,
\* COLLAPSING, CLOSED: an accepted open makes the card EXPANDING at once, it
\* becomes FLIPPED only by the timer of the expand delay, an accepted close
\* makes it COLLAPSING at once, the commit clears the active card and releases
\* the lock, and the lock is held during EXPANDING and COLLAPSING.
C20_PhaseCycle ==
  [][/\ Phase' # Phase => <<Phase, Phase'>> \in PhaseEdges
     /\ (\E id \in CardIds : CardClick(id) /\ activeCardId' # activeCardId)
          => Phase' = "EXPANDING"
     /\ (Phase # "FLIPPED" /\ Phase' = "FLIPPED")
          => \E i \in 1..Len(timers) : FlipFire(i)
     /\ (Phase # "CLOSED" /\ Phase' = "CLOSED")
          => /\ ~isAnimating'
             /\ \E i \in 1..Len(timers) : CommitFire(i)
     /\ Phase' \in {"EXPANDING", "COLLAPSING"} => isAnimating']_vars

\* The pending timers of handleError.
ShakeTimers == {i \in 1..Len(timers) : timers[i].kind = "shake"}

\* C21: a rejection made while the error pulse is active restarts the pulse
\* timer: shakeError stays set until ERROR_PULSE after the most recent
\* rejection, so it is set whenever a timer of handleError still has time left.
C21_PulseRestarts ==
  (\E i \in ShakeTimers : timers[i].rem > 0) => shakeError

\* C22: a countdown tick that finds remaining <= 0, exactly 0 included, sets
\* isGameLive and stops the interval; isGameLive never reverts; the tick
\* unlocks exactly the instants the initial evaluation (without TEST_MODE)
\* unlocks.
C22_TickUnlocksAtTarget ==
  [][/\ (CountdownTick /\ remaining <= 0) => (isGameLive' /\ interval' = Null)
     /\ CountdownTick => (isGameLive' = InitialGameLive(FALSE, remaining))
     /\ isGameLive => isGameLive']_vars

\* C23: solvedCards only grows: an id that is in user.solvedCards is there in
\* every later state, whatever close commits, opens and submissions interleave.
C23_SolvedOnlyGrows ==
  [][\A id \in CardIds :
       Includes(user.solvedCards, id) => Includes(user'.solvedCards, id)]_vars

====
